---- MODULE Spec2Model ----
(***************************************************************************)
(* Contract analyzer backend: extract_text_from_pdf (pdf_processor.py),    *)
(* analyze_contract_text (gpt_analyzer.py) and the /analyze-contract/      *)
(* endpoint (main.py).                                                     *)
(*                                                                         *)
(* A Python str is a sequence of symbols.  A symbol is one character      *)
(* (" ", "a", "{", ...) or an atom standing for a fixed run of characters  *)
(* that the program never looks inside (a message literal, the key name    *)
(* "simplified_contract", the literal "null").  A Python object is a       *)
(* record tagged by its type in field t.                                   *)
(***************************************************************************)
EXTENDS Integers, Sequences, FiniteSets, TLC

(***************************************************************************)
(* Bounds of the model.                                                    *)
(***************************************************************************)
MaxTextLen == 2   \* longest contract_text of a direct call
MaxPages == 2     \* most pages of a document
MaxCons == 2      \* longest cons list of a generated reply
MaxTrunc == 2     \* most symbols cut off the end of a reply to damage it

(***************************************************************************)
(* Python objects.                                                         *)
(***************************************************************************)
PyStr(s) == [t |-> "str", s |-> s]
PyInt(n) == [t |-> "int", n |-> n]
PyNone == [t |-> "NoneType"]
PyList(items) == [t |-> "list", items |-> items]
\* A dict keeps its items, <<key, value>> pairs with distinct keys, in insertion
\* order.
PyDict(items) == [t |-> "dict", items |-> items]

DictHas(d, key) == \E i \in 1..Len(d.items) : d.items[i][1] = key
DictLookup(d, key) == d.items[CHOOSE i \in 1..Len(d.items) : d.items[i][1] = key][2]
\* d[key] = value
DictSet(d, key, value) ==
    IF DictHas(d, key)
    THEN PyDict([i \in 1..Len(d.items) |->
                    IF d.items[i][1] = key THEN <<key, value>> ELSE d.items[i]])
    ELSE PyDict(Append(d.items, <<key, value>>))

isinstance(obj, type) == obj.t = type

\* An exception object; desc is what str(e) yields.
Exc(type, desc) == [type |-> type, desc |-> desc]

\* The outcome of evaluating an expression or a block: a value or a raise.
Return(v) == [raised |-> FALSE, val |-> v]
Raise(e) == [raised |-> TRUE, exc |-> e]

\* The exception classes that are subclasses of (or are) class cls.
ExcTypes == {"APIError", "AuthenticationError", "Timeout", "JSONDecodeError",
             "AttributeError", "IndexError", "TypeError", "ValueError",
             "PdfReadError", "OSError", "Exception"}
Subclasses(cls) ==
    CASE cls = "Exception" -> ExcTypes
      [] cls = "EnvironmentError" -> {"OSError"}
      [] OTHER -> {cls}
ExceptMatches(e, cls) == e.type \in Subclasses(cls)

(***************************************************************************)
(* str helpers.                                                            *)
(***************************************************************************)
Whitespace == {" ", "\n"}

RECURSIVE LStrip(_)
LStrip(s) == IF s # <<>> /\ Head(s) \in Whitespace THEN LStrip(Tail(s)) ELSE s

RECURSIVE RStrip(_)
RStrip(s) ==
    IF s # <<>> /\ s[Len(s)] \in Whitespace THEN RStrip(SubSeq(s, 1, Len(s) - 1)) ELSE s

\* str.strip()
strip(s) == RStrip(LStrip(s))

\* sub in s
Contains(s, sub) ==
    \E i \in 0..(Len(s) - Len(sub)) : SubSeq(s, i + 1, i + Len(sub)) = sub

\* s.endswith(suffix)
endswith(s, suffix) ==
    Len(s) >= Len(suffix) /\ SubSeq(s, Len(s) - Len(suffix) + 1, Len(s)) = suffix

LowerOf == [c \in {"P", "D", "F", "A"} |->
               CASE c = "P" -> "p" [] c = "D" -> "d" [] c = "F" -> "f" [] c = "A" -> "a"]

\* str.lower()
lower(s) == [i \in 1..Len(s) |-> IF s[i] \in DOMAIN LowerOf THEN LowerOf[s[i]] ELSE s[i]]

\* All sequences over S of length at most n.
SeqsUpTo(S, n) == UNION {[1..k -> S] : k \in 0..n}

(***************************************************************************)
(* json.loads, on the token level: a JSON text is a sequence of symbols,   *)
(* the punctuation { } [ ] : , " each one symbol, a number or null one     *)
(* symbol, a string the symbols between two " symbols.                     *)
(***************************************************************************)
NumberOf == [c \in {"1", "42"} |-> IF c = "1" THEN 1 ELSE 42]

ParseFail == [ok |-> FALSE]
ParseOk(v, next) == [ok |-> TRUE, v |-> v, next |-> next]

RECURSIVE SkipWs(_, _)
SkipWs(s, i) == IF i <= Len(s) /\ s[i] \in Whitespace THEN SkipWs(s, i + 1) ELSE i

\* Index of the quote closing a string whose first character is at i; 0 when the
\* string is unterminated or holds a control character.
RECURSIVE CloseQuote(_, _)
CloseQuote(s, i) ==
    IF i > Len(s) \/ s[i] = "\n" THEN 0
    ELSE IF s[i] = "\"" THEN i
    ELSE CloseQuote(s, i + 1)

ParseString(s, i) ==
    IF i > Len(s) \/ s[i] # "\"" THEN ParseFail
    ELSE LET j == CloseQuote(s, i + 1)
         IN  IF j = 0 THEN ParseFail ELSE ParseOk(SubSeq(s, i + 1, j - 1), j + 1)

RECURSIVE ParseValue(_, _)
RECURSIVE ParseElems(_, _, _)
RECURSIVE ParseMembers(_, _, _)

ParseValue(s, i) ==
    IF i > Len(s) THEN ParseFail
    ELSE CASE s[i] = "\"" ->
                 LET r == ParseString(s, i)
                 IN  IF r.ok THEN ParseOk(PyStr(r.v), r.next) ELSE ParseFail
           [] s[i] \in DOMAIN NumberOf -> ParseOk(PyInt(NumberOf[s[i]]), i + 1)
           [] s[i] = "null" -> ParseOk(PyNone, i + 1)
           [] s[i] = "[" ->
                 LET j == SkipWs(s, i + 1)
                 IN  IF j <= Len(s) /\ s[j] = "]"
                     THEN ParseOk(PyList(<<>>), j + 1)
                     ELSE ParseElems(s, j, <<>>)
           [] s[i] = "{" ->
                 LET j == SkipWs(s, i + 1)
                 IN  IF j <= Len(s) /\ s[j] = "}"
                     THEN ParseOk(PyDict(<<>>), j + 1)
                     ELSE ParseMembers(s, j, PyDict(<<>>))
           [] OTHER -> ParseFail

\* The elements of an array from position i on, acc the elements read so far.
ParseElems(s, i, acc) ==
    LET r == ParseValue(s, i)
    IN  IF ~r.ok THEN ParseFail
        ELSE LET j == SkipWs(s, r.next)
             IN  IF j > Len(s) THEN ParseFail
                 ELSE IF s[j] = "]" THEN ParseOk(PyList(Append(acc, r.v)), j + 1)
                 ELSE IF s[j] = "," THEN ParseElems(s, SkipWs(s, j + 1), Append(acc, r.v))
                 ELSE ParseFail

\* The members of an object from position i on, d the dict built so far (a
\* repeated key keeps its last value).
ParseMembers(s, i, d) ==
    LET k == ParseString(s, i)
    IN  IF ~k.ok THEN ParseFail
        ELSE LET c == SkipWs(s, k.next)
             IN  IF c > Len(s) \/ s[c] # ":" THEN ParseFail
                 ELSE LET r == ParseValue(s, SkipWs(s, c + 1))
                      IN  IF ~r.ok THEN ParseFail
                          ELSE LET j == SkipWs(s, r.next)
                                   d2 == DictSet(d, k.v, r.v)
                               IN  IF j > Len(s) THEN ParseFail
                                   ELSE IF s[j] = "}" THEN ParseOk(d2, j + 1)
                                   ELSE IF s[j] = ","
                                        THEN ParseMembers(s, SkipWs(s, j + 1), d2)
                                   ELSE ParseFail

\* json.loads(content)
json_loads(content) ==
    IF ~isinstance(content, "str")
    THEN Raise(Exc("TypeError", <<"the JSON object must be str, bytes or bytearray">>))
    ELSE LET s == content.s
             r == ParseValue(s, SkipWs(s, 1))
         IN  IF ~r.ok THEN Raise(Exc("JSONDecodeError", <<"Expecting value">>))
             ELSE IF SkipWs(s, r.next) <= Len(s)
                  THEN Raise(Exc("JSONDecodeError", <<"Extra data">>))
             ELSE Return(r.v)

\* obj.get(key, default): only a dict has the method.
dict_get(obj, key, default) ==
    IF ~isinstance(obj, "dict")
    THEN Raise(Exc("AttributeError", <<"object has no attribute 'get'">>))
    ELSE Return(IF DictHas(obj, key) THEN DictLookup(obj, key) ELSE default)

(***************************************************************************)
(* json.dumps with its default separators: what a reply that is valid JSON  *)
(* looks like on the wire.                                                  *)
(***************************************************************************)
Q == "\""
IntSym(n) == CHOOSE c \in DOMAIN NumberOf : NumberOf[c] = n

RECURSIVE json_dumps(_)
RECURSIVE DumpElems(_, _)
RECURSIVE DumpItems(_, _)

json_dumps(v) ==
    CASE v.t = "str" -> <<Q>> \o v.s \o <<Q>>
      [] v.t = "int" -> <<IntSym(v.n)>>
      [] v.t = "NoneType" -> <<"null">>
      [] v.t = "list" -> <<"[">> \o DumpElems(v.items, 1) \o <<"]">>
      [] v.t = "dict" -> <<"{">> \o DumpItems(v.items, 1) \o <<"}">>

DumpElems(items, i) ==
    IF i > Len(items) THEN <<>>
    ELSE json_dumps(items[i])
         \o (IF i < Len(items) THEN <<",", " ">> ELSE <<>>)
         \o DumpElems(items, i + 1)

DumpItems(items, i) ==
    IF i > Len(items) THEN <<>>
    ELSE <<Q>> \o items[i][1] \o <<Q, ":", " ">> \o json_dumps(items[i][2])
         \o (IF i < Len(items) THEN <<",", " ">> ELSE <<>>)
         \o DumpItems(items, i + 1)

(***************************************************************************)
(* gpt_analyzer.py: analyze_contract_text.                                  *)
(***************************************************************************)
KeySummary == <<"simplified_contract">>
KeyCons == <<"cons">>

EmptyTextMsg == <<"The provided contract text is empty.">>
DefaultSummary == <<"Could not extract simplified contract.">>
ConsFormatMsg ==
    <<"GPT response for cons was not in the expected format", " (list of strings).">>
ParseFailedMsg == <<"Failed to parse GPT response as JSON", ". The raw response was: ">>
UnexpectedStructureMsg == <<"Unexpected response structure from GPT.">>
ApiErrorPrefix == <<"OpenAI API Error: ">>
UnexpectedErrorPrefix == <<"An unexpected error occurred during analysis: ">>

\* The (summary, cons) tuple the function returns.
Pair(summary, cons) == [summary |-> summary, cons |-> cons]

\* obj.name: an object is a record of its attributes.
getattr(obj, name) ==
    IF name \in DOMAIN obj THEN Return(obj[name])
    ELSE Raise(Exc("AttributeError", <<"object has no attribute '", name, "'">>))

\* response.choices[0].message.content
ResponseContent(response) ==
    IF "choices" \notin DOMAIN response THEN getattr(response, "choices")
    ELSE IF Len(response.choices) = 0
    THEN Raise(Exc("IndexError", <<"list index out of range">>))
    ELSE LET message == getattr(response.choices[1], "message")
         IN  IF message.raised THEN message ELSE getattr(message.val, "content")

\* all(isinstance(item, str) for item in cons)
AllStr(items) == \A i \in 1..Len(items) : isinstance(items[i], "str")

\* Mutant: the check of the type of cons alone, not of its elements.
ConsMalformed_ListOnly(cons) == ~isinstance(cons, "list")

\* not isinstance(cons, list) or not all(isinstance(item, str) for item in cons)
ConsMalformed(cons) == ~isinstance(cons, "list") \/ ~AllStr(cons.items)

\* Mutant: "if not cons or ...", which takes the empty list for a malformed one.
CheckedCons_EmptyRejected(cons) ==
    IF ConsMalformed(cons) \/ cons.items = <<>>
    THEN PyList(<<PyStr(ConsFormatMsg)>>)
    ELSE cons

\* The cons the function returns for the cons value read from the reply.
CheckedCons(cons) == IF ConsMalformed(cons) THEN PyList(<<PyStr(ConsFormatMsg)>>) ELSE cons

\* Mutant: cons returned as read, without the check.
ReadAnalysis_Unchecked(analysis_result) ==
    LET simplified_contract == dict_get(analysis_result, KeySummary, PyStr(DefaultSummary))
        cons == dict_get(analysis_result, KeyCons, PyList(<<>>))
    IN  IF simplified_contract.raised THEN simplified_contract
        ELSE IF cons.raised THEN cons
        ELSE Return(Pair(simplified_contract.val, cons.val))

\* The inner try block from the parsed reply on: the two reads with their
\* defaults, the check of cons, the return.
ReadAnalysis(analysis_result) ==
    LET simplified_contract == dict_get(analysis_result, KeySummary, PyStr(DefaultSummary))
        cons == dict_get(analysis_result, KeyCons, PyList(<<>>))
    IN  IF simplified_contract.raised THEN simplified_contract
        ELSE IF cons.raised THEN cons
        ELSE Return(Pair(simplified_contract.val, CheckedCons(cons.val)))

\* The body of the inner try block, parsed being the outcome of json.loads(content).
InnerBody(parsed) == IF parsed.raised THEN parsed ELSE ReadAnalysis(parsed.val)

\* Mutant: the parse failure reported without the raw reply.
InnerExcept_OmitRaw(content, body) ==
    IF ~body.raised THEN body
    ELSE IF ExceptMatches(body.exc, "JSONDecodeError")
         THEN Return(Pair(PyStr(ParseFailedMsg), PyList(<<>>)))
    ELSE IF ExceptMatches(body.exc, "AttributeError")
         THEN Return(Pair(PyStr(UnexpectedStructureMsg), PyList(<<>>)))
    ELSE body

\* The except clauses of the inner try statement, body being its block's outcome.
InnerExcept(content, body) ==
    IF ~body.raised THEN body
    ELSE IF ExceptMatches(body.exc, "JSONDecodeError")
         THEN Return(Pair(PyStr(ParseFailedMsg \o content.s), PyList(<<>>)))
    ELSE IF ExceptMatches(body.exc, "AttributeError")
         THEN Return(Pair(PyStr(UnexpectedStructureMsg), PyList(<<>>)))
    ELSE body

\* The inner try statement.
InnerTry(content) == InnerExcept(content, InnerBody(json_loads(content)))

\* The outer try block from the read of the reply's content on.
AfterContent(content) == IF content.raised THEN content ELSE InnerTry(content.val)

\* The body of the outer try block, from the transport's outcome on.
OuterBody(outcome) ==
    IF outcome.raised THEN outcome ELSE AfterContent(ResponseContent(outcome.val))

\* Mutant: the except clauses returning (None, None), as the docstring has it.
OuterExcept_ReturnsNone(body) ==
    IF ~body.raised THEN body
    ELSE IF ExceptMatches(body.exc, "Exception")
         THEN Return(Pair(PyNone, PyNone))
    ELSE body

\* Mutant: the outer try statement without its "except Exception" clause.
OuterExcept_ApiErrorOnly(body) ==
    IF ~body.raised THEN body
    ELSE IF ExceptMatches(body.exc, "APIError")
         THEN Return(Pair(PyStr(ApiErrorPrefix \o body.exc.desc), PyList(<<>>)))
    ELSE body

\* The except clauses of the outer try statement, body being its block's outcome.
OuterExcept(body) ==
    IF ~body.raised THEN body
    ELSE IF ExceptMatches(body.exc, "APIError")
         THEN Return(Pair(PyStr(ApiErrorPrefix \o body.exc.desc), PyList(<<>>)))
    ELSE IF ExceptMatches(body.exc, "Exception")
         THEN Return(Pair(PyStr(UnexpectedErrorPrefix \o body.exc.desc), PyList(<<>>)))
    ELSE body

\* Mutant: the reply's content read before the outer try statement is entered.
OuterTry_ContentReadOutside(outcome) ==
    IF outcome.raised THEN OuterExcept(outcome)
    ELSE IF ResponseContent(outcome.val).raised THEN ResponseContent(outcome.val)
    ELSE OuterExcept(InnerTry(ResponseContent(outcome.val).val))

\* The outer try statement: what analyze_contract_text does once the awaited
\* transport call has returned or raised.
OuterTry(outcome) == OuterExcept(OuterBody(outcome))

\* Mutant: the test "not contract_text", without strip().
IsBlank_NoStrip(text) == text = <<>>

\* not contract_text.strip()
IsBlank(text) == strip(text) = <<>>

(***************************************************************************)
(* pdf_processor.py: extract_text_from_pdf.  The bytes of a document are    *)
(* modelled by what PyPDF2 makes of them: error is the exception PdfReader  *)
(* raises on them ("" when it raises none), pages the outcome of each       *)
(* page's extract_text().                                                   *)
(***************************************************************************)
Document(kind, error, pages) == [kind |-> kind, error |-> error, pages |-> pages]

\* PyPDF2.PdfReader(BytesIO(pdf_file_bytes)), and its pages
PdfReader(pdf_file_bytes) ==
    IF pdf_file_bytes.error = "" THEN Return(pdf_file_bytes.pages)
    ELSE Raise(Exc(pdf_file_bytes.error, <<"cannot read ", pdf_file_bytes.kind>>))

\* x or ""
OrEmpty(x) == IF isinstance(x, "str") THEN x.s ELSE <<>>

\* Mutant: each page's text put before the text read so far.
RECURSIVE PageLoop_Prepend(_, _, _)
PageLoop_Prepend(pages, page_num, text) ==
    IF page_num > Len(pages) THEN Return(PyStr(text))
    ELSE LET page_text == pages[page_num]
         IN  IF page_text.raised THEN page_text
             ELSE PageLoop_Prepend(pages, page_num + 1, OrEmpty(page_text.val) \o text)

\* The for loop over the pages, from page page_num on, with text read so far.
RECURSIVE PageLoop(_, _, _)
PageLoop(pages, page_num, text) ==
    IF page_num > Len(pages) THEN Return(PyStr(text))
    ELSE LET page_text == pages[page_num]
         IN  IF page_text.raised THEN page_text
             ELSE PageLoop(pages, page_num + 1, text \o OrEmpty(page_text.val))

\* The try block from the constructed reader on.
ReadPages(pdf_reader) ==
    IF pdf_reader.raised THEN pdf_reader ELSE PageLoop(pdf_reader.val, 1, <<>>)

\* Mutant: the try statement without its "except Exception" clause.
ExtractExcept_PdfReadErrorOnly(body) ==
    IF ~body.raised THEN body
    ELSE IF ExceptMatches(body.exc, "PdfReadError") THEN Return(PyStr(<<>>))
    ELSE body

\* The except clauses of the try statement, body being its block's outcome.
ExtractExcept(body) ==
    IF ~body.raised THEN body
    ELSE IF ExceptMatches(body.exc, "PdfReadError") THEN Return(PyStr(<<>>))
    ELSE IF ExceptMatches(body.exc, "Exception") THEN Return(PyStr(<<>>))
    ELSE body

extract_text_from_pdf(pdf_file_bytes) == ExtractExcept(ReadPages(PdfReader(pdf_file_bytes)))

(***************************************************************************)
(* main.py: the /analyze-contract/ endpoint.                                *)
(***************************************************************************)
UploadFile(filename, content_type, bytes) ==
    [filename |-> filename, content_type |-> content_type, bytes |-> bytes]

PdfSuffix == <<".", "p", "d", "f">>
PdfContentType == "application/pdf"

NoResponse == [status |-> 0]
HTTPException(status_code, detail) == [status |-> status_code, detail |-> detail]
JSONResponse(content) == [status |-> 200, body |-> content]

InvalidFileTypeDetail == <<"Invalid file type", ". Only PDF files are accepted.">>
InvalidContentTypeDetail ==
    <<"Invalid file content type", ". Expected application/pdf.">>
SaveFailedPrefix == <<"Failed to save or read uploaded PDF: ">>
NoTextDetail ==
    <<"Could not extract text", " from the PDF. It might be empty, image-based, or corrupted.">>
AnalysisErrorPrefix == <<"Error during GPT analysis: ">>
AnalysisFailedDetail == <<"Contract analysis failed", " to produce a result.">>
\* What the framework answers when the handler lets an exception escape.
InternalServerError == <<"Internal Server Error">>

\* Mutant: the extension compared without lower().
ValidateUpload_CaseSensitive(file) ==
    IF ~endswith(file.filename, PdfSuffix)
    THEN HTTPException(400, InvalidFileTypeDetail)
    ELSE IF ~(file.content_type = PdfContentType)
         THEN HTTPException(400, InvalidContentTypeDetail)
    ELSE NoResponse

\* The two checks that open the handler: the exception raised, or NoResponse
\* when the upload passes.
ValidateUpload(file) ==
    IF ~endswith(lower(file.filename), PdfSuffix)
    THEN HTTPException(400, InvalidFileTypeDetail)
    ELSE IF ~(file.content_type = PdfContentType)
         THEN HTTPException(400, InvalidContentTypeDetail)
    ELSE NoResponse

\* Mutant: the handler without its "except EnvironmentError" clause.
RespondToAnalysis_NoEnvironmentClause(file, outcome) ==
    IF outcome.raised
    THEN IF ExceptMatches(outcome.exc, "Exception")
         THEN HTTPException(500, AnalysisErrorPrefix \o outcome.exc.desc)
         ELSE HTTPException(500, InternalServerError)
    ELSE IF outcome.val.summary = PyNone /\ outcome.val.cons = PyNone
         THEN HTTPException(500, AnalysisFailedDetail)
    ELSE JSONResponse([original_filename |-> file.filename,
                       simplified_contract |-> outcome.val.summary,
                       cons |-> outcome.val.cons])

\* Mutant: the sentinel test with "or" for "and".
RespondToAnalysis_EitherNone(file, outcome) ==
    IF outcome.raised
    THEN IF ExceptMatches(outcome.exc, "EnvironmentError")
         THEN HTTPException(500, outcome.exc.desc)
         ELSE IF ExceptMatches(outcome.exc, "Exception")
              THEN HTTPException(500, AnalysisErrorPrefix \o outcome.exc.desc)
         ELSE HTTPException(500, InternalServerError)
    ELSE IF outcome.val.summary = PyNone \/ outcome.val.cons = PyNone
         THEN HTTPException(500, AnalysisFailedDetail)
    ELSE JSONResponse([original_filename |-> file.filename,
                       simplified_contract |-> outcome.val.summary,
                       cons |-> outcome.val.cons])

\* The handler from the outcome of the awaited analysis on: the response.
RespondToAnalysis(file, outcome) ==
    IF outcome.raised
    THEN IF ExceptMatches(outcome.exc, "EnvironmentError")
         THEN HTTPException(500, outcome.exc.desc)
         ELSE IF ExceptMatches(outcome.exc, "Exception")
              THEN HTTPException(500, AnalysisErrorPrefix \o outcome.exc.desc)
         ELSE HTTPException(500, InternalServerError)
    ELSE IF outcome.val.summary = PyNone /\ outcome.val.cons = PyNone
         THEN HTTPException(500, AnalysisFailedDetail)
    ELSE JSONResponse([original_filename |-> file.filename,
                       simplified_contract |-> outcome.val.summary,
                       cons |-> outcome.val.cons])

(***************************************************************************)
(* The inputs the environment can supply.                                   *)
(***************************************************************************)
\* contract_text of a direct call
Texts == SeqsUpTo({" ", "\n", "c"}, MaxTextLen)

\* Replies that are a JSON object: any subset of the two expected keys, in
\* either order, well or badly typed, with or without a key nobody asked for.
ConsElems == {PyStr(<<"x">>), PyStr(<<"y">>), PyInt(1)}
ConsLists == {PyList(l) : l \in SeqsUpTo(ConsElems, MaxCons)}
StrLists == {PyList(l) : l \in SeqsUpTo({PyStr(<<"x">>), PyStr(<<"y">>)}, MaxCons)}
BadCons == (ConsLists \ StrLists) \cup {PyStr(<<"x">>), PyNone, PyInt(42), PyDict(<<>>)}
SummaryValues == {PyStr(<<"a">>), PyStr(<<>>), PyNone, PyInt(42)}
SummaryItems == {<<>>} \cup {<< <<KeySummary, v>> >> : v \in SummaryValues}
ConsItems == {<<>>} \cup {<< <<KeyCons, v>> >> : v \in StrLists \cup BadCons}
ExtraItems == {<<>>, << << <<"k">>, PyInt(1) >> >>}
PlainDicts == {PyDict(a \o b) : a \in SummaryItems, b \in ConsItems}
ReplyDicts ==
    {PyDict(a \o b \o e) : a \in SummaryItems, b \in ConsItems, e \in ExtraItems}
    \cup {PyDict(b \o a) : a \in SummaryItems, b \in ConsItems}

\* Reply texts that are valid JSON holding an object.
ObjectContents ==
    {json_dumps(d) : d \in ReplyDicts}
    \cup {<<" ">> \o json_dumps(d) \o <<"\n">> : d \in {PyDict(<<>>)}}

\* Reply texts that are valid JSON holding something else.
NonObjectContents ==
    {json_dumps(v) : v \in {PyList(<<>>), PyList(<<PyStr(<<"x">>)>>), PyInt(1), PyNone,
                            PyStr(<<"a">>)}}

\* Reply texts that are not valid JSON: a reply cut short, text after the
\* value, a key without a value, prose, nothing.
InvalidContents ==
    {SubSeq(json_dumps(d), 1, Len(json_dumps(d)) - k) : d \in PlainDicts, k \in 1..MaxTrunc}
    \cup {json_dumps(d) \o <<"}">> : d \in {PyDict(<<>>)}}
    \cup {<<>>, <<" ">>, <<"a">>, <<"{", Q, "cons", Q, "}">>, <<"[", "1", ",", "]">>,
          <<Q, "a", "\n", Q>>}

StrContents == ObjectContents \cup NonObjectContents \cup InvalidContents

Choice(content) == [index |-> 0, message |-> [role |-> "assistant", content |-> content]]
Response(choices) == [choices |-> choices]

\* A reply whose first choice carries the str content.
StrReply(content) == Return(Response(<<Choice(PyStr(content))>>))

\* Replies of another shape: no choices, no choice, a choice without a message,
\* a message without content, content that is no str.
OddReplies ==
    {Return([id |-> "chatcmpl-1"]),
     Return(Response(<<>>)),
     Return(Response(<<[index |-> 0]>>)),
     Return(Response(<<[index |-> 0, message |-> [role |-> "assistant"]]>>)),
     Return(Response(<<Choice(PyNone)>>)),
     Return(Response(<<Choice(PyInt(1))>>))}

\* The transport call raising.
ApiErrors == {Raise(Exc("APIError", <<"Simulated API Error">>))}
OtherErrors == {Raise(Exc("AuthenticationError", <<"Invalid API key">>)),
                Raise(Exc("Timeout", <<"Request timed out">>))}

\* Every outcome of awaiting openai.ChatCompletion.acreate.
TransportOutcomes ==
    {StrReply(c) : c \in StrContents} \cup OddReplies \cup ApiErrors \cup OtherErrors

\* Outcomes of one page's extract_text().
PageOutcomes == {Return(PyStr(<<"c">>)), Return(PyStr(<<" ">>)), Return(PyStr(<<>>)),
                 Return(PyNone), Raise(Exc("ValueError", <<"bad page">>))}

\* Byte sequences PdfReader cannot parse, with the exception it raises on them.
UnparsableDocuments ==
    {Document(kind, error, <<>>) :
        kind \in {"empty", "truncated", "random", "encrypted"},
        error \in {"PdfReadError", "ValueError"}}

ParsableDocuments == {Document("pdf", "", pages) : pages \in SeqsUpTo(PageOutcomes, MaxPages)}

Documents == UnparsableDocuments \cup ParsableDocuments

Filenames == {<<"a", ".", "p", "d", "f">>, <<"A", ".", "P", "d", "F">>,
              <<"a", ".", "t", "x", "t">>, <<"a", "p", "d", "f">>,
              <<"a", ".", "p", "d", "f", ".", "t">>, <<"p", "d", "f">>, <<>>}
ContentTypes == {"application/pdf", "text/plain", "Application/PDF"}

\* What a test double standing in for analyze_contract_text may do.
StubOutcomes ==
    {Return(Pair(PyStr(<<"Simplified summary.">>), PyList(<<PyStr(<<"Con 1.">>)>>))),
     Return(Pair(PyNone, PyNone)),
     Return(Pair(PyNone, PyList(<<>>))),
     Raise(Exc("Exception", <<"GPT blew up">>)),
     Raise(Exc("OSError", <<"OPENAI_API_KEY environment variable not set.">>))}

\* Failures of the file system while the upload is saved and read back.
SaveFaults == {"none", "create", "copy", "read"}

(***************************************************************************)
(* State.                                                                   *)
(***************************************************************************)
VARIABLES
    op,               \* the operation the client invoked: "idle" before it did
    an_pc,            \* analyze_contract_text: "idle", "awaiting", "returned", "raised"
    contract_text,    \* its argument
    reply,            \* the outcome of its transport call
    an_out,           \* its outcome: the pair returned, or the exception raised
    transport_calls,  \* requests sent to the transport
    ex_pc,            \* extract_text_from_pdf: "idle", "returned", "raised"
    pdf_file_bytes,   \* its argument
    ex_out,           \* its outcome
    extract_calls,    \* calls of extract_text_from_pdf
    ep_pc,            \* the endpoint: "idle", "saving", "extracting", "analyzing", "done"
    file,             \* the upload
    analyzer,         \* "real", or "stub" when a test double replaces the analysis
    tmp_pdf_path,     \* whether the local tmp_pdf_path is bound
    tmp_created,      \* whether the request created a temporary file
    tmp_exists,       \* whether that file is on disk
    analyze_calls,    \* calls of analyze_contract_text by the endpoint
    response          \* the response sent

an_vars == <<an_pc, contract_text, reply, an_out, transport_calls>>
ex_vars == <<ex_pc, pdf_file_bytes, ex_out, extract_calls>>
ep_vars == <<ep_pc, file, analyzer, tmp_pdf_path, tmp_created, tmp_exists, analyze_calls,
             response>>
vars == <<op, an_vars, ex_vars, ep_vars>>

Pending == [raised |-> FALSE, pending |-> TRUE]
NoFile == UploadFile(<<>>, "", Document("none", "", <<>>))

Init ==
    /\ op = "idle"
    /\ an_pc = "idle" /\ contract_text = <<>> /\ reply = Pending /\ an_out = Pending
    /\ transport_calls = 0
    /\ ex_pc = "idle" /\ pdf_file_bytes = NoFile.bytes /\ ex_out = Pending
    /\ extract_calls = 0
    /\ ep_pc = "idle" /\ file = NoFile /\ analyzer = "real"
    /\ tmp_pdf_path = FALSE /\ tmp_created = FALSE /\ tmp_exists = FALSE
    /\ analyze_calls = 0 /\ response = NoResponse

PcOf(outcome) == IF outcome.raised THEN "raised" ELSE "returned"

(***************************************************************************)
(* analyze_contract_text.                                                   *)
(***************************************************************************)
\* The call up to its await: the empty-text return, or the transport request.
AnalyzeEnter(text) ==
    /\ contract_text' = text
    /\ reply' = Pending
    /\ IF IsBlank(text)
       THEN /\ an_out' = Return(Pair(PyStr(EmptyTextMsg), PyList(<<>>)))
            /\ an_pc' = "returned"
            /\ UNCHANGED transport_calls
       ELSE /\ an_out' = Pending
            /\ an_pc' = "awaiting"
            /\ transport_calls' = transport_calls + 1

\* A client calls analyze_contract_text directly.
AnalyzeCall ==
    /\ op = "idle"
    /\ op' = "analyze"
    /\ \E text \in Texts : AnalyzeEnter(text)
    /\ UNCHANGED <<ex_vars, ep_vars>>

\* Mutant: a transport call that raised is sent once more.
TransportDone_RetryOnError ==
    /\ an_pc = "awaiting"
    /\ \E outcome \in TransportOutcomes :
          \E result \in {OuterTry(outcome)} :
             /\ reply' = outcome
             /\ IF outcome.raised /\ transport_calls < 2
                THEN /\ transport_calls' = transport_calls + 1
                     /\ UNCHANGED <<an_out, an_pc>>
                ELSE /\ an_out' = result
                     /\ an_pc' = PcOf(result)
                     /\ UNCHANGED transport_calls
    /\ UNCHANGED <<op, contract_text, ex_vars, ep_vars>>

\* The awaited transport call returns or raises, and the function runs to its end.
TransportDone ==
    /\ an_pc = "awaiting"
    /\ \E outcome \in TransportOutcomes :
          \E result \in {OuterTry(outcome)} :
             /\ reply' = outcome
             /\ an_out' = result
             /\ an_pc' = PcOf(result)
    /\ UNCHANGED <<op, contract_text, transport_calls, ex_vars, ep_vars>>

(***************************************************************************)
(* extract_text_from_pdf.                                                   *)
(***************************************************************************)
ExtractRun(bytes, result) ==
    /\ pdf_file_bytes' = bytes
    /\ ex_out' = result
    /\ ex_pc' = PcOf(result)
    /\ extract_calls' = extract_calls + 1

\* A client calls extract_text_from_pdf directly.
ExtractCall ==
    /\ op = "idle"
    /\ op' = "extract"
    /\ \E bytes \in Documents : ExtractRun(bytes, extract_text_from_pdf(bytes))
    /\ UNCHANGED <<an_vars, ep_vars>>

(***************************************************************************)
(* The endpoint, one action per stretch of the handler between awaits.      *)
(***************************************************************************)
Uploads == {UploadFile(n, c, b) : n \in Filenames, c \in ContentTypes, b \in Documents}

\* POST /analyze-contract/ arrives and the handler checks the upload.
ReceiveUpload ==
    /\ op = "idle"
    /\ op' = "endpoint"
    /\ \E f \in Uploads, a \in {"real", "stub"} :
          \E rejection \in {ValidateUpload(f)} :
             /\ file' = f
             /\ analyzer' = a
             /\ response' = rejection
             /\ ep_pc' = IF rejection = NoResponse THEN "saving" ELSE "done"
    /\ UNCHANGED <<tmp_pdf_path, tmp_created, tmp_exists, analyze_calls, an_vars, ex_vars>>

\* The try statement that saves the upload and reads it back, under a fault of
\* the file system: whether the temporary file was created, whether
\* tmp_pdf_path got bound, whether the block raised, whether the file remains.
SaveOutcome(fault) ==
    LET created == fault # "create"
        bound == fault \in {"none", "read"}
        failed == fault # "none"
        unlinked == failed /\ bound /\ created
    IN  [created |-> created, bound |-> bound, failed |-> failed,
         exists |-> created /\ ~unlinked]

SaveUpload ==
    /\ ep_pc = "saving"
    /\ \E fault \in SaveFaults :
          LET o == SaveOutcome(fault)
          IN  /\ tmp_created' = o.created
              /\ tmp_pdf_path' = o.bound
              /\ tmp_exists' = o.exists
              /\ IF o.failed
                 THEN /\ response' = HTTPException(500, SaveFailedPrefix \o <<fault>>)
                      /\ ep_pc' = "done"
                 ELSE /\ ep_pc' = "extracting"
                      /\ UNCHANGED response
    /\ UNCHANGED <<op, file, analyzer, analyze_calls, an_vars, ex_vars>>

\* Mutant: the test "not extracted_text", without strip().
NoText_EmptyOnly(extracted_text) == extracted_text = <<>>

\* not extracted_text.strip()
NoText(extracted_text) == strip(extracted_text) = <<>>

\* Extraction, the 422 for no text, and the analysis call up to its await.
ExtractStep ==
    /\ ep_pc = "extracting"
    /\ \E extracted_text \in {extract_text_from_pdf(file.bytes)} :
           /\ ExtractRun(file.bytes, extracted_text)
           /\ IF extracted_text.raised
              THEN /\ response' = HTTPException(500, InternalServerError)
                   /\ ep_pc' = "done"
                   /\ UNCHANGED <<tmp_exists, analyze_calls, an_vars>>
              ELSE IF NoText(extracted_text.val.s)
              THEN /\ tmp_exists' = FALSE
                   /\ response' = HTTPException(422, NoTextDetail)
                   /\ ep_pc' = "done"
                   /\ UNCHANGED <<analyze_calls, an_vars>>
              ELSE /\ analyze_calls' = analyze_calls + 1
                   /\ ep_pc' = "analyzing"
                   /\ IF analyzer = "real"
                      THEN AnalyzeEnter(extracted_text.val.s)
                      ELSE /\ contract_text' = extracted_text.val.s
                           /\ an_pc' = "stubbed"
                           /\ UNCHANGED <<reply, an_out, transport_calls>>
                   /\ UNCHANGED <<tmp_exists, response>>
    /\ UNCHANGED <<op, file, analyzer, tmp_pdf_path, tmp_created>>

\* The test double returns or raises what the test set it up to.
StubDone ==
    /\ an_pc = "stubbed"
    /\ \E outcome \in StubOutcomes :
          /\ an_out' = outcome
          /\ an_pc' = PcOf(outcome)
    /\ UNCHANGED <<op, contract_text, reply, transport_calls, ex_vars, ep_vars>>

\* Whether the handler unlinks the temporary file after the analysis: in both
\* except clauses and on the way to the response.
UnlinksAfterAnalysis(outcome) == ~outcome.raised \/ ExceptMatches(outcome.exc, "Exception")

\* The analysis returned or raised: clean up and respond.
FinishRequest ==
    /\ ep_pc = "analyzing"
    /\ an_pc \in {"returned", "raised"}
    /\ response' = RespondToAnalysis(file, an_out)
    /\ tmp_exists' = (tmp_exists /\ ~UnlinksAfterAnalysis(an_out))
    /\ ep_pc' = "done"
    /\ UNCHANGED <<op, file, analyzer, tmp_pdf_path, tmp_created, analyze_calls, an_vars,
                   ex_vars>>

Next ==
    \/ AnalyzeCall
    \/ TransportDone
    \/ ExtractCall
    \/ ReceiveUpload
    \/ SaveUpload
    \/ ExtractStep
    \/ StubDone
    \/ FinishRequest

Spec == Init /\ [][Next]_vars

(***************************************************************************)
(* Properties.                                                              *)
(***************************************************************************)
\* The real analyze_contract_text has returned or raised.
AnalyzeEnded == analyzer = "real" /\ an_pc \in {"returned", "raised"}

\* The str content of the reply of the ended call.
ReplyContent == reply.val.choices[1].message.content.s

AllWhitespace(text) == \A i \in 1..Len(text) : text[i] \in Whitespace

\* Reply objects with both keys well typed, and those whose cons is not a list
\* of strings.
WellTypedDicts ==
    {d \in ReplyDicts : /\ DictHas(d, KeySummary)
                        /\ DictLookup(d, KeySummary).t = "str"
                        /\ DictHas(d, KeyCons)
                        /\ DictLookup(d, KeyCons) \in StrLists}
BadConsDicts == {d \in ReplyDicts : DictHas(d, KeyCons) /\ DictLookup(d, KeyCons) \in BadCons}
WellTypedReplies == {StrReply(json_dumps(d)) : d \in WellTypedDicts}
BadConsReplies == {StrReply(json_dumps(d)) : d \in BadConsDicts}

\* Each well typed reply with the outcome C3 states for it.
WellTypedCases ==
    {<<StrReply(json_dumps(d)),
       Return(Pair(DictLookup(d, KeySummary), DictLookup(d, KeyCons)))>> :
        d \in WellTypedDicts}

\* Each reply with a malformed cons with the outcome C5 states for it.
BadConsCases ==
    {<<StrReply(json_dumps(d)),
       Return(Pair(IF DictHas(d, KeySummary) THEN DictLookup(d, KeySummary)
                   ELSE PyStr(<<"Could not extract simplified contract.">>),
                   PyList(<<PyStr(<<"GPT response for cons was not in the expected format",
                                    " (list of strings).">>)>>)))>> :
        d \in BadConsDicts}
InvalidReplies == {StrReply(c) : c \in InvalidContents}

C2_BlankTextShortCircuit ==
    (analyzer = "real" /\ an_pc # "idle" /\ AllWhitespace(contract_text)) =>
        /\ an_pc = "returned"
        /\ an_out = Return(Pair(PyStr(<<"The provided contract text is empty.">>),
                                PyList(<<>>)))
        /\ transport_calls = 0
        /\ reply = Pending

C2_Witness ==
    /\ op = "analyze" /\ an_pc = "returned"
    /\ contract_text = <<" ", "\n">>
    /\ transport_calls = 0

\* C3: a reply that is a JSON object with a str simplified_contract and a cons
\* that is a list of str (the empty list too) is returned as it is: that very
\* str and that very list, in order.
C3_WellTypedReplyUnchanged ==
    (AnalyzeEnded /\ reply \in WellTypedReplies) => <<reply, an_out>> \in WellTypedCases

C3_Witness ==
    /\ AnalyzeEnded
    /\ reply = StrReply(json_dumps(PyDict(<<
                   <<KeyCons, PyList(<<PyStr(<<"y">>), PyStr(<<"x">>)>>)>>,
                   <<KeySummary, PyStr(<<"a">>)>> >>)))
    /\ an_out.val.cons.items = <<PyStr(<<"y">>), PyStr(<<"x">>)>>

C5_BadConsReplaced ==
    (AnalyzeEnded /\ reply \in BadConsReplies) =>
        /\ an_pc = "returned"
        /\ <<reply, an_out>> \in BadConsCases

C5_Witness ==
    /\ AnalyzeEnded
    /\ reply = StrReply(json_dumps(PyDict(<<
                   <<KeySummary, PyStr(<<"a">>)>>,
                   <<KeyCons, PyList(<<PyStr(<<"x">>), PyInt(1)>>)>> >>)))
    /\ Len(an_out.val.cons.items) = 1
    /\ an_out.val.summary = PyStr(<<"a">>)

C7_SummaryNonEmptyStr ==
    (analyzer = "real" /\ an_pc = "returned") =>
        /\ an_out.val.summary.t = "str"
        /\ an_out.val.summary.s # <<>>

\* The text of the pages in page order, a page without text counting as "".
RECURSIVE PagesText(_)
PagesText(pages) ==
    IF pages = <<>> THEN <<>>
    ELSE (IF Head(pages).val.t = "str" THEN Head(pages).val.s ELSE <<>>)
         \o PagesText(Tail(pages))

SomePageRaises(bytes) == \E i \in 1..Len(bytes.pages) : bytes.pages[i].raised

\* C8: extract_text_from_pdf never raises; it returns "" for bytes that cannot
\* be parsed, and "" (not the text read so far) when reading a page fails.
C8_ExtractNeverRaises ==
    (ex_pc # "idle") =>
        /\ ex_pc = "returned"
        /\ ~ex_out.raised
        /\ pdf_file_bytes \in UnparsableDocuments => ex_out.val = PyStr(<<>>)
        /\ SomePageRaises(pdf_file_bytes) => ex_out.val = PyStr(<<>>)

C8_Witness ==
    /\ op = "extract" /\ ex_pc = "returned"
    /\ Len(pdf_file_bytes.pages) = 2
    /\ pdf_file_bytes.pages[1] = Return(PyStr(<<"c">>))
    /\ pdf_file_bytes.pages[2].raised
    /\ ex_out.val = PyStr(<<>>)

\* C9: for a document that parses and whose pages all read, the text returned
\* is the pages' text in page order with nothing between; that is "" for no
\* page or only empty pages.
C9_PagesConcatenated ==
    (ex_pc = "returned" /\ pdf_file_bytes \in ParsableDocuments
        /\ ~SomePageRaises(pdf_file_bytes)) =>
        ex_out.val = PyStr(PagesText(pdf_file_bytes.pages))

C9_Witness ==
    /\ op = "extract" /\ ex_pc = "returned"
    /\ pdf_file_bytes.pages = <<Return(PyStr(<<"c">>)), Return(PyStr(<<" ">>))>>
    /\ ex_out.val = PyStr(<<"c", " ">>)

\* The name ends in .pdf, in whatever case.
EndsInPdf(name) ==
    /\ Len(name) >= 4
    /\ name[Len(name) - 3] = "."
    /\ name[Len(name) - 2] \in {"p", "P"}
    /\ name[Len(name) - 1] \in {"d", "D"}
    /\ name[Len(name)] \in {"f", "F"}

\* The request is over and has touched nothing: no temporary file, no
\* extraction, no analysis.
RejectedUntouched ==
    /\ ep_pc = "done"
    /\ response.status = 400
    /\ ~tmp_created /\ ~tmp_exists
    /\ extract_calls = 0 /\ analyze_calls = 0 /\ transport_calls = 0
    /\ ex_pc = "idle" /\ an_pc = "idle"

\* C10: an upload whose filename does not end in .pdf (in whatever case) gets
\* 400 "Invalid file type" whatever its content type; one that does, with a
\* content type other than application/pdf, gets 400 "Invalid file content
\* type"; either way before any temporary file, extraction or analysis.
C10_UploadValidatedFirst ==
    (op = "endpoint") =>
        /\ ~EndsInPdf(file.filename) =>
              /\ RejectedUntouched
              /\ Contains(response.detail, <<"Invalid file type">>)
        /\ (EndsInPdf(file.filename) /\ file.content_type # "application/pdf") =>
              /\ RejectedUntouched
              /\ Contains(response.detail, <<"Invalid file content type">>)

C10_Witness ==
    /\ op = "endpoint"
    /\ file.filename = <<"A", ".", "P", "d", "F">>
    /\ file.content_type = "text/plain"
    /\ response.status = 400
    /\ Contains(response.detail, <<"Invalid file content type">>)

\* C11: when extraction yields text that is empty or all whitespace, the
\* endpoint answers 422 "Could not extract text ..." and analyze_contract_text
\* (hence the transport) is never called for the request; the analysis is
\* called only after extraction returned text with a non-whitespace character,
\* and with that text.
C11_BlankTextNeverAnalyzed ==
    (op = "endpoint") =>
        /\ (ex_pc = "returned" /\ AllWhitespace(ex_out.val.s)) =>
              /\ ep_pc = "done"
              /\ response.status = 422
              /\ Contains(response.detail, <<"Could not extract text">>)
              /\ analyze_calls = 0 /\ transport_calls = 0
              /\ an_pc = "idle"
        /\ (analyze_calls > 0 \/ transport_calls > 0 \/ an_pc # "idle") =>
              /\ ex_pc = "returned"
              /\ ~AllWhitespace(ex_out.val.s)
              /\ contract_text = ex_out.val.s

C11_Witness ==
    /\ op = "endpoint" /\ ep_pc = "done"
    /\ ex_pc = "returned" /\ ex_out.val.s = <<" ">>
    /\ response.status = 422
    /\ analyze_calls = 0 /\ transport_calls = 0

\* The request is over and its analysis returned a pair.
AnalysisReturned == op = "endpoint" /\ ep_pc = "done" /\ an_pc = "returned"

\* C12: when the analysis of a request returns a pair other than (None, None),
\* the endpoint answers 200 with a body of exactly original_filename = the
\* uploaded filename, simplified_contract = the summary and cons = the cons,
\* both as the analysis returned them; extraction was called once, with the
\* uploaded bytes, and the analysis once, with the extracted text, which is not
\* blank.
C12_SuccessBodyPassedThrough ==
    (AnalysisReturned /\ an_out.val # [summary |-> PyNone, cons |-> PyNone]) =>
        /\ response.status = 200
        /\ DOMAIN response.body = {"original_filename", "simplified_contract", "cons"}
        /\ response.body.original_filename = file.filename
        /\ response.body.simplified_contract = an_out.val.summary
        /\ response.body.cons = an_out.val.cons
        /\ extract_calls = 1 /\ pdf_file_bytes = file.bytes
        /\ analyze_calls = 1 /\ contract_text = ex_out.val.s
        /\ ~AllWhitespace(ex_out.val.s)

C12_Witness ==
    /\ AnalysisReturned /\ analyzer = "stub"
    /\ file.filename = <<"A", ".", "P", "d", "F">>
    /\ response.status = 200
    /\ response.body.original_filename = <<"A", ".", "P", "d", "F">>
    /\ response.body.simplified_contract = PyStr(<<"Simplified summary.">>)
    /\ response.body.cons = PyList(<<PyStr(<<"Con 1.">>)>>)

\* The request is over and its analysis raised.
AnalysisRaised == op = "endpoint" /\ ep_pc = "done" /\ an_pc = "raised"

\* C13: when the analysis call raises an exception of description D the
\* endpoint answers 500 with detail "Error during GPT analysis: D", or D alone
\* when the exception is an EnvironmentError; when it returns (None, None) the
\* endpoint answers 500 with a detail containing "Contract analysis failed";
\* neither way is there a 200 body.
C13_AnalysisFailureIs500 ==
    /\ AnalysisRaised =>
          /\ response.status = 500
          /\ "body" \notin DOMAIN response
          /\ response.detail =
                 IF an_out.exc.type = "OSError"
                 THEN an_out.exc.desc
                 ELSE <<"Error during GPT analysis: ">> \o an_out.exc.desc
    /\ (AnalysisReturned /\ an_out.val = [summary |-> PyNone, cons |-> PyNone]) =>
          /\ response.status = 500
          /\ "body" \notin DOMAIN response
          /\ Contains(response.detail, <<"Contract analysis failed">>)

C13_Witness ==
    /\ AnalysisRaised
    /\ an_out.exc = Exc("OSError", <<"OPENAI_API_KEY environment variable not set.">>)
    /\ response.status = 500
    /\ response.detail = <<"OPENAI_API_KEY environment variable not set.">>

\* Replies whose content is valid JSON but no object.
NonObjectReplies == {StrReply(c) : c \in NonObjectContents}

C15_SingleTransportAttempt ==
    /\ transport_calls <= 1
    /\ (analyzer = "real" /\ an_pc # "idle") =>
          transport_calls = IF AllWhitespace(contract_text) THEN 0 ELSE 1
    /\ (AnalyzeEnded /\ reply # Pending) => transport_calls = 1
    /\ (op = "endpoint") =>
          /\ analyze_calls <= 1
          /\ transport_calls <= analyze_calls

C15_Witness ==
    /\ op = "endpoint" /\ ep_pc = "done" /\ AnalyzeEnded
    /\ reply.raised /\ reply.exc.type = "Timeout"
    /\ analyze_calls = 1 /\ transport_calls = 1

\* C16: whenever the endpoint finishes a request for which it created the
\* temporary file (the copy into it failed, reading it back failed, 422 for
\* blank text, the analysis raised, the analysis returned (None, None),
\* success), the file is gone by the time the response is produced.
C16_TempFileDeleted ==
    (op = "endpoint" /\ ep_pc = "done" /\ tmp_created) => ~tmp_exists

\* The real analysis of a request ended on a failed transport call or on a
\* malformed reply: one that is no valid JSON, or of unexpected shape.
FailedOrMalformed ==
    /\ op = "endpoint" /\ ep_pc = "done" /\ AnalyzeEnded
    /\ \/ reply.raised
       \/ reply \in InvalidReplies \cup OddReplies \cup NonObjectReplies

ErrorNarratives ==
    {"OpenAI API Error: ", "An unexpected error occurred during analysis: ",
     "Failed to parse GPT response as JSON", "Unexpected response structure from GPT."}

====
